---- MODULE Spec2Model ----
(***************************************************************************)
(* RCA Copilot: the asynchronous query pipeline.                           *)
(*   Submission API (main.py ask_query)  -> ResultStore + JobQueue (Redis) *)
(*   Worker (worker.py RCAWorker)        -> MasterAgent -> ResultStore     *)
(*   Result API (main.py get_result)                                       *)
(* Python values are tagged (str / none / bool) so that None, "" and the   *)
(* text "None" stay different values, and JSON text is a separate type.    *)
(***************************************************************************)
EXTENDS Naturals, Integers, Sequences, FiniteSets, TLC

\* ------------------------------------------------------------------ bounds
\* requests submitted in a run, and the seconds one step of time takes
MaxJobs == 2
TickSeconds == 1800
\* redis_config.py 36, and the one RCAWorker that worker.py 271 creates
RESULT_TTL == 3600
NumWorkers == 1
\* worker processes that share the queue when the Worker is scaled out
MaxWorkers == 2
\* messages on the queue at one time that did not come from ask_query
MaxForeign == 1

Requests == 1..MaxJobs
JobIds == 1..MaxJobs
Workers == 1..NumWorkers
Pool == 1..MaxWorkers
Queries == {"", "vibration MCH_003"}
Agents == {"sensor_agent", "operator_agent", "maintenance_agent"}

\* ------------------------------------------------------------ Python values
Str(s) == [t |-> "str", s |-> s]
None == [t |-> "none", s |-> ""]
Bool(b) == [t |-> "bool", s |-> IF b THEN "True" ELSE "False"]
Truthy(v) == \/ v.t = "bool" /\ v.s = "True"
             \/ v.t = "str" /\ v.s # ""
Get(d, k, default) == IF k \in DOMAIN d THEN d[k] ELSE default

\* ---------------------------------------------------------------- JSON text
JNull == [j |-> "null", s |-> ""]
JString(s) == [j |-> "string", s |-> s]
JBool(s) == [j |-> "bool", s |-> s]
\* str(None) in place of JSON null
ToJson_str(v) == IF v.t = "none" THEN JString("None")
                 ELSE IF v.t = "bool" THEN JBool(v.s)
                 ELSE JString(v.s)
ToJson(v) == IF v.t = "none" THEN JNull
             ELSE IF v.t = "bool" THEN JBool(v.s)
             ELSE JString(v.s)
FromJson(x) == IF x.j = "null" THEN None
               ELSE IF x.j = "bool" THEN [t |-> "bool", s |-> x.s]
               ELSE Str(x.s)
json_dumps(d) == [k \in DOMAIN d |-> ToJson(d[k])]
json_loads(text) == [k \in DOMAIN text |-> FromJson(text[k])]
\* a text that is not JSON: json.loads raises json.JSONDecodeError on it
NotJson == [raw |-> JString("not json")]
Decodes(text) == "raw" \notin DOMAIN text

\* ------------------------------------------------------------------- state
VARIABLES
    store,          \* ResultStore: job_id -> Nil | [val: JSON text, ttl: seconds left]
    queue,          \* JobQueue: sequence of JSON messages
    reqPc,          \* ask_query, per request: position in the handler
    reqId,          \* ask_query, per request: the query_id drawn by uuid4
    reqQuery,       \* ask_query, per request: request.query
    wpc,            \* RCAWorker, per worker: position in start()/process_query()
    wjob,           \* RCAWorker: (query_id, query) of the popped message
    existing_data,  \* RCAWorker._update_query_status: the text read by get
    routing_decision, \* MasterAgent.process_query: result of _route_query
    agent_responses,  \* MasterAgent._invoke_agents: responses collected so far
    response,       \* RCAWorker.process_query: result of master_agent.process_query
    externals,      \* history: the outcomes of the external calls of ROUTING and INVOKING
    job_log,        \* history: what the job's external calls did, kept to the end of the job
    written,        \* history: job_id -> the dict last written under the key
    age,            \* history: job_id -> seconds since that write (capped)
    seen,           \* history: job_id -> statuses stored so far
    pushed,         \* history: the job_ids in the order RPUSH appended them
    popped,         \* history: the job_ids in the order BLPOP delivered them
    lost,           \* history: job_ids whose worker died or was stopped while it held them
    running,        \* RCAWorker.running, per worker: the flag the while of start() tests
    listing         \* list_results: position, keys still to read, queries collected; history:
                    \* the keys live at the KEYS command and those live ever since

vars == << store, queue, reqPc, reqId, reqQuery, wpc, wjob, existing_data,
           routing_decision, agent_responses, response, externals, job_log,
           written, age, seen, pushed, popped, lost, running, listing >>

reqVars == << reqPc, reqId, reqQuery >>
masterVars == << routing_decision, agent_responses, response, externals, job_log >>
histVars == << written, age, seen >>
workerLocals == << wjob, existing_data, masterVars >>
deliveryVars == << pushed, popped, lost >>

Nil == [val |-> [none |-> JNull], ttl |-> 0]
NoDict == [none |-> None]
NoJob == [query_id |-> 0, query |-> ""]
NoRouting == [a \in Agents |-> FALSE]
NoResponses == [k \in {} |-> NoDict]
NoText == [none |-> JNull]
NoClassification == [raised |-> FALSE, yes |-> {"unset"}]
NoExternals == [classification |-> NoClassification,
                agents |-> [a \in Agents |-> "unset"]]
NoListing == [pc |-> "idle", keys |-> {}, queries |-> << >>, start |-> {}, always |-> {}]
NoLog == [all_selected |-> FALSE, all_succeeded |-> FALSE, synthesis |-> "unset"]

\* ------------------------------------------------------------ Redis commands
\* a SET that keeps the expiry an existing key has (SET ... KEEPTTL)
setex_keepttl(st, key, ttl, value) ==
    [st EXCEPT ![key] = [val |-> value,
                         ttl |-> IF st[key] # Nil THEN st[key].ttl ELSE ttl]]
\* SETEX key ttl value: create or overwrite, with a fresh expiry.
setex(st, key, ttl, value) == [st EXCEPT ![key] = [val |-> value, ttl |-> ttl]]
\* GET key: the value, or None when the key is absent or expired.
Exists(st, key) == st[key] # Nil
\* history bookkeeping that goes with a write of dict d under key
Wrote(key, d) ==
    /\ written' = [written EXCEPT ![key] = d]
    /\ age' = [age EXCEPT ![key] = 0]
    /\ seen' = [seen EXCEPT ![key] = @ \cup {d.status.s}]

Min(a, b) == IF a < b THEN a ELSE b

\* Time passes: every key's remaining time-to-live shrinks; a key whose time
\* is up is removed by Redis.
Tick ==
    /\ \E k \in JobIds : Exists(store, k)
    /\ store' = [k \in JobIds |->
                   IF Exists(store, k) /\ store[k].ttl > TickSeconds
                   THEN [store[k] EXCEPT !.ttl = @ - TickSeconds]
                   ELSE Nil]
    /\ age' = [k \in JobIds |->
                   IF written[k] = NoDict THEN 0
                   ELSE Min(age[k] + TickSeconds, RESULT_TTL)]
    /\ UNCHANGED << queue, reqVars, wpc, wjob, existing_data, masterVars,
                    written, seen >>
    /\ UNCHANGED deliveryVars
    /\ UNCHANGED running
    /\ listing' = IF listing.pc = "get"
                  THEN [listing EXCEPT !.always =
                           {k \in @ : Exists(store, k) /\ store[k].ttl > TickSeconds}]
                  ELSE listing

\* --------------------------------------------------- Submission API: ask_query
\* uuid.uuid4(): an identifier no earlier call returned.
uuid4(used) == CHOOSE id \in JobIds : id \notin used

UsedIds == {reqId[r] : r \in {x \in Requests : reqPc[x] # "none"}}
\* The handler is an async function that never awaits: the one API process runs
\* it to its end before it takes the next request.
NextRequest(r) ==
    /\ reqPc[r] = "none"
    /\ \A x \in Requests : x < r => reqPc[x] \in {"returned", "error500"}

\* the initial record with a status other than queued
initial_result_pending(query) ==
    [query |-> Str(query), status |-> Str("pending"), rca_report |-> None,
     error |-> None, timestamp |-> None]
initial_result(query) ==
    [query |-> Str(query), status |-> Str("queued"), rca_report |-> None,
     error |-> None, timestamp |-> None]

query_message(query_id, query) ==
    [query_id |-> Str(query_id), query |-> Str(query),
     timestamp |-> Str("submitted_at")]

\* main.py 212-237: draw the query_id, build the message, SETEX the queued record.
AskStore(r, q) ==
    /\ NextRequest(r)
    /\ LET query_id == uuid4(UsedIds) IN
         /\ reqId' = [reqId EXCEPT ![r] = query_id]
         /\ reqQuery' = [reqQuery EXCEPT ![r] = q]
         /\ store' = setex(store, query_id, RESULT_TTL, json_dumps(initial_result(q)))
         /\ Wrote(query_id, initial_result(q))
    /\ reqPc' = [reqPc EXCEPT ![r] = "stored"]
    /\ UNCHANGED << queue, wpc, workerLocals >>
    /\ UNCHANGED deliveryVars
    /\ UNCHANGED running
    /\ UNCHANGED listing

\* LPUSH in place of RPUSH: the message goes to the head of the queue
AskPush_head(r) ==
    /\ reqPc[r] = "stored"
    /\ queue' = << json_dumps(query_message(reqId[r], reqQuery[r])) >> \o queue
    /\ pushed' = Append(pushed, reqId[r])
    /\ reqPc' = [reqPc EXCEPT ![r] = "pushed"]
    /\ UNCHANGED << store, reqId, reqQuery, wpc, workerLocals, histVars, popped, lost >>
    /\ UNCHANGED running
    /\ UNCHANGED listing
\* main.py 239-240: RPUSH the message at the tail of the queue.
AskPush(r) ==
    /\ reqPc[r] = "stored"
    /\ queue' = Append(queue, json_dumps(query_message(reqId[r], reqQuery[r])))
    /\ pushed' = Append(pushed, reqId[r])
    /\ reqPc' = [reqPc EXCEPT ![r] = "pushed"]
    /\ UNCHANGED << store, reqId, reqQuery, wpc, workerLocals, histVars, popped, lost >>
    /\ UNCHANGED running
    /\ UNCHANGED listing

\* a handler that writes the queued record once more after the push
AskReturn_requeue(r) ==
    /\ reqPc[r] = "pushed"
    /\ store' = setex(store, reqId[r], RESULT_TTL, json_dumps(initial_result(reqQuery[r])))
    /\ Wrote(reqId[r], initial_result(reqQuery[r]))
    /\ reqPc' = [reqPc EXCEPT ![r] = "returned"]
    /\ UNCHANGED << queue, reqId, reqQuery, wpc, workerLocals >>
    /\ UNCHANGED deliveryVars
    /\ UNCHANGED running
    /\ UNCHANGED listing

\* main.py 242-249: the handler returns AskResponse(query_id, status="queued").
AskReturn(r) ==
    /\ reqPc[r] = "pushed"
    /\ reqPc' = [reqPc EXCEPT ![r] = "returned"]
    /\ UNCHANGED << store, queue, reqId, reqQuery, wpc, workerLocals, histVars >>
    /\ UNCHANGED deliveryVars
    /\ UNCHANGED running
    /\ UNCHANGED listing

\* main.py 251-256: the SETEX raises; the handler answers 500 and nothing is stored.
AskStoreFails(r, q) ==
    /\ NextRequest(r)
    /\ reqId' = [reqId EXCEPT ![r] = uuid4(UsedIds)]
    /\ reqQuery' = [reqQuery EXCEPT ![r] = q]
    /\ reqPc' = [reqPc EXCEPT ![r] = "error500"]
    /\ UNCHANGED << store, queue, wpc, workerLocals, histVars >>
    /\ UNCHANGED deliveryVars
    /\ UNCHANGED running
    /\ UNCHANGED listing

\* main.py 251-256: the RPUSH raises; the handler answers 500, the record stays.
AskPushFails(r) ==
    /\ reqPc[r] = "stored"
    /\ reqPc' = [reqPc EXCEPT ![r] = "error500"]
    /\ UNCHANGED << store, queue, reqId, reqQuery, wpc, workerLocals, histVars >>
    /\ UNCHANGED deliveryVars
    /\ UNCHANGED running
    /\ UNCHANGED listing

AskResponse(r) == [query_id |-> reqId[r], query |-> reqQuery[r], status |-> "queued"]

\* ------------------------------------------------------ Result API: get_result
NotFound == [http |-> 404]
\* a handler that answers 410 Gone for a key that existed once
get_result_gone(query_id) ==
    IF ~Exists(store, query_id)
    THEN IF written[query_id] # NoDict THEN [http |-> 410] ELSE NotFound
    ELSE LET result == json_loads(store[query_id].val) IN
         [http |-> 200, query_id |-> query_id, query |-> result["query"],
          status |-> result["status"], rca_report |-> result["rca_report"],
          error |-> result["error"], timestamp |-> result["timestamp"]]
\* main.py 259-304
get_result(query_id) ==
    IF ~Exists(store, query_id)
    THEN NotFound
    ELSE LET result == json_loads(store[query_id].val) IN
         [http |-> 200, query_id |-> query_id, query |-> result["query"],
          status |-> result["status"], rca_report |-> result["rca_report"],
          error |-> result["error"], timestamp |-> result["timestamp"]]

\* ---------------------------------------------------- Result API: list_results
\* main.py 329-334: the entry appended for a key whose GET returned a record
list_entry(query_id, result) ==
    [query_id |-> query_id, query |-> result["query"], status |-> result["status"],
     timestamp |-> result["timestamp"]]
\* main.py 337-340
list_response(queries) == [http |-> 200, total_queries |-> Len(queries), queries |-> queries]

Live == {k \in JobIds : Exists(store, k)}
otherVars == << store, queue, reqVars, wpc, workerLocals, histVars, deliveryVars, running >>

\* main.py 322-323: KEYS result:* gives the keys that exist at this moment.  The
\* handler runs in the API's event loop, between two ask_query calls.
ListKeys ==
    /\ listing.pc = "idle"
    /\ \A r \in Requests : reqPc[r] \in {"none", "returned", "error500"}
    /\ listing' = [pc |-> "get", keys |-> Live, queries |-> << >>,
                   start |-> Live, always |-> Live]
    /\ UNCHANGED otherVars

\* a loop body without `if result_data`: json.loads(None) raises, the handler
\* answers 500
ListGet_strict ==
    /\ listing.pc = "get"
    /\ \E k \in listing.keys :
         listing' = IF Exists(store, k)
                    THEN [listing EXCEPT
                            !.keys = @ \ {k},
                            !.queries = Append(@, list_entry(k, json_loads(store[k].val)))]
                    ELSE NoListing
    /\ UNCHANGED otherVars
\* main.py 325-334: one turn of the loop: GET of the next key; a key that is
\* gone by now is skipped.
ListGet ==
    /\ listing.pc = "get"
    /\ \E k \in listing.keys :
         listing' = IF Exists(store, k)
                    THEN [listing EXCEPT
                            !.keys = @ \ {k},
                            !.queries = Append(@, list_entry(k, json_loads(store[k].val)))]
                    ELSE [listing EXCEPT !.keys = @ \ {k}]
    /\ UNCHANGED otherVars

\* main.py 337-340: the handler returns list_response(listing.queries); its
\* locals are gone.
ListReturn ==
    /\ listing.pc = "get"
    /\ listing.keys = {}
    /\ listing' = NoListing
    /\ UNCHANGED otherVars

\* ------------------------------------------------ MasterAgent: the Orchestrator
\* What the external calls can do.  The classification call raises or returns a
\* text; of the text only the set of agents it answers "<AGENT>: YES" for matters.
ClassificationOutcomes ==
    {[raised |-> TRUE, yes |-> {}]} \cup
    {[raised |-> FALSE, yes |-> Y] : Y \in SUBSET Agents}
CallOutcomes == {"returns", "raises"}

AllAgents == [a \in Agents |-> TRUE]

\* _route_query without the "at least one agent" default
_route_query_no_default(query, classification) ==
    IF classification.raised
    THEN AllAgents
    ELSE [a \in Agents |-> a \in classification.yes]
\* _route_query whose except branch selects the sensor agent only
_route_query_sensor_on_error(query, classification) ==
    IF classification.raised
    THEN [a \in Agents |-> a = "sensor_agent"]
    ELSE LET routing == [a \in Agents |-> a \in classification.yes] IN
         IF ~(\E a \in Agents : routing[a]) THEN AllAgents ELSE routing
\* master_agent.py 100-164
_route_query(query, classification) ==
    IF classification.raised
    THEN AllAgents
    ELSE LET routing == [a \in Agents |-> a \in classification.yes] IN
         IF ~(\E a \in Agents : routing[a]) THEN AllAgents ELSE routing

AgentName(a) == CASE a = "sensor_agent" -> "Sensor Data Agent"
                  [] a = "operator_agent" -> "Operator Agent"
                  [] OTHER -> "Maintenance Agent"
ResponseKey(a) == CASE a = "sensor_agent" -> "sensor_data"
                    [] a = "operator_agent" -> "operator_reports"
                    [] OTHER -> "maintenance_logs"
AgentErrMsg(a) == "retrieval failed: " \o a

\* AgentResponse(...).to_dict(), base_agent.py 187-212
AgentResponse_to_dict(agent_name, success, data, error) ==
    [agent_name |-> Str(agent_name), success |-> Bool(success), data |-> data,
     error |-> error, metadata |-> Str("metadata")]

\* The data dict of a successful response: the analysis dict of
\* _analyze_sensor_data (sensor_agent.py 94-147), or documents, query and source
\* (operator_agent.py 80-84, maintenance_agent.py 80-84).
agent_data(a, query) ==
    IF a = "sensor_agent"
    THEN [summary |-> Str("sensor summary for: " \o query),
          statistics |-> Str("statistics")]
    ELSE [documents |-> Str("documents of " \o AgentName(a)),
          query |-> Str(query), source |-> Str("local")]

\* SensorDataAgent / OperatorAgent / MaintenanceAgent .process_query: the whole
\* body is inside try/except Exception, so a raising retrieval or summarization
\* call is returned as an unsuccessful response, never raised.
agent_process_query(a, query, outcome) ==
    IF outcome = "returns"
    THEN AgentResponse_to_dict(AgentName(a), TRUE, agent_data(a, query), None)
    ELSE AgentResponse_to_dict(AgentName(a), FALSE, None, Str(AgentErrMsg(a)))

\* a block without its `if routing.get(...)`: the agent is invoked in any case
invoke_agent_always(responses, routing, a, query, outcomes) ==
    (ResponseKey(a) :> agent_process_query(a, query, outcomes[a])) @@ responses
\* master_agent.py 183-220: the three blocks of _invoke_agents, in source order.
\* outcomes[a] is what the external calls of agent a do when it is invoked.
invoke_agent(responses, routing, a, query, outcomes) ==
    IF Get(routing, a, FALSE)
    THEN (ResponseKey(a) :> agent_process_query(a, query, outcomes[a])) @@ responses
    ELSE responses

\* _invoke_agents with one try/except around the three blocks: the first agent
\* that fails ends the invocations
_invoke_agents_abort(query, routing, outcomes) ==
    LET failed(a) == routing[a] /\ outcomes[a] = "raises"
        r0 == NoResponses
        r1 == invoke_agent(r0, routing, "sensor_agent", query, outcomes)
        r2 == IF failed("sensor_agent") THEN r1
              ELSE invoke_agent(r1, routing, "operator_agent", query, outcomes)
    IN  IF failed("sensor_agent") \/ failed("operator_agent") THEN r2
        ELSE invoke_agent(r2, routing, "maintenance_agent", query, outcomes)
_invoke_agents(query, routing, outcomes) ==
    LET r0 == NoResponses
        r1 == invoke_agent(r0, routing, "sensor_agent", query, outcomes)
        r2 == invoke_agent(r1, routing, "operator_agent", query, outcomes)
    IN  invoke_agent(r2, routing, "maintenance_agent", query, outcomes)

\* The keyword arguments of the call at master_agent.py 269-278 and the
\* parameters RCAChain.generate_rca_report declares at rca_chain.py 64-71.
CallKeywords == {"query", "sensor_analysis", "operator_analysis",
                 "maintenance_analysis", "sensor_documents", "operator_documents",
                 "maintenance_documents", "context"}
SignatureParams == {"query", "sensor_data", "operator_reports", "maintenance_logs",
                    "context"}
EmptyList == Str("[]")
DocumentsKey(a) == IF a = "sensor_agent" THEN "all_documents" ELSE "documents"
\* master_agent.py 239-278: the keyword arguments _generate_rca_report builds
\* from the collected responses.  Only a response with success True is read, and
\* of its data only the keys "analysis" and "all_documents" / "documents".
synthesis_kwargs(query, responses) ==
    LET ok(a) == /\ ResponseKey(a) \in DOMAIN responses
                 /\ Truthy(responses[ResponseKey(a)].success)
        analysis(a) == IF ok(a)
                       THEN Get(responses[ResponseKey(a)].data, "analysis", Str(""))
                       ELSE Str("")
        documents(a) == IF ok(a)
                        THEN Get(responses[ResponseKey(a)].data, DocumentsKey(a), EmptyList)
                        ELSE EmptyList
    IN  [query |-> Str(query),
         sensor_analysis |-> analysis("sensor_agent"),
         operator_analysis |-> analysis("operator_agent"),
         maintenance_analysis |-> analysis("maintenance_agent"),
         sensor_documents |-> documents("sensor_agent"),
         operator_documents |-> documents("operator_agent"),
         maintenance_documents |-> documents("maintenance_agent"),
         context |-> Str("")]
TypeErrMsg == "generate_rca_report() got an unexpected keyword argument"
SynthErrMsg == "synthesis call failed"
Narrative == "root cause narrative"

Raised(msg) == [raised |-> TRUE, msg |-> msg, value |-> NoDict]
Returned(v) == [raised |-> FALSE, msg |-> "", value |-> v]

\* rca_chain.py 85-119: the llm.invoke outcome is `synthesis`; an exception is
\* caught and returned as a dict with success False.
RCAChain_generate_rca_report(query, synthesis) ==
    IF synthesis = "returns"
    THEN [success |-> Bool(TRUE), rca_report |-> Str(Narrative), query |-> Str(query)]
    ELSE [success |-> Bool(FALSE), error |-> Str(SynthErrMsg), query |-> Str(query)]

\* master_agent.py 222-282: a keyword the callee does not declare makes the call
\* itself raise TypeError before the callee's body runs.
_generate_rca_report(query, responses, synthesis) ==
    IF DOMAIN synthesis_kwargs(query, responses) \ SignatureParams # {}
    THEN Raised(TypeErrMsg)
    ELSE Returned(RCAChain_generate_rca_report(query, synthesis))

\* process_query whose except branch reports success with an empty report
master_process_query_swallow(query, responses, synthesis) ==
    LET rca_report == _generate_rca_report(query, responses, synthesis) IN
    [success |-> Bool(TRUE), query |-> Str(query),
     rca_report |-> IF rca_report.raised THEN Str("")
                    ELSE Get(rca_report.value, "rca_report", Str("")),
     timestamp |-> Str("now")]
\* master_agent.py 67-98: steps 3 and 4 and the except branch of process_query.
master_process_query(query, responses, synthesis) ==
    LET rca_report == _generate_rca_report(query, responses, synthesis) IN
    IF rca_report.raised
    THEN [success |-> Bool(FALSE), error |-> Str(rca_report.msg),
          query |-> Str(query), timestamp |-> Str("now")]
    ELSE [success |-> Bool(TRUE), query |-> Str(query),
          rca_report |-> Get(rca_report.value, "rca_report", Str("")),
          timestamp |-> Str("now")]

\* --------------------------------------------------------- Worker: RCAWorker
RedisErrMsg == "Error connecting to Redis"

\* the failed record keeps whatever report the response carries
terminal_result_keeps_report(query, resp) ==
    IF Truthy(Get(resp, "success", None))
    THEN [query |-> Str(query), status |-> Str("completed"),
          rca_report |-> Get(resp, "rca_report", Str("No report generated")),
          error |-> None, timestamp |-> Get(resp, "timestamp", None)]
    ELSE [query |-> Str(query), status |-> Str("failed"),
          rca_report |-> Get(resp, "rca_report", Str("No report generated")),
          error |-> Get(resp, "error", Str("Unknown error")),
          timestamp |-> Get(resp, "timestamp", None)]
\* worker.py 138-156: the record built from the Orchestrator's response.
terminal_result(query, resp) ==
    IF Truthy(Get(resp, "success", None))
    THEN [query |-> Str(query), status |-> Str("completed"),
          rca_report |-> Get(resp, "rca_report", Str("No report generated")),
          error |-> None, timestamp |-> Get(resp, "timestamp", None)]
    ELSE [query |-> Str(query), status |-> Str("failed"), rca_report |-> None,
          error |-> Get(resp, "error", Str("Unknown error")),
          timestamp |-> Get(resp, "timestamp", None)]

\* the except branch forgets the exception text
except_result_no_text(query, e) ==
    [query |-> Str(query), status |-> Str("failed"), rca_report |-> None,
     error |-> None, timestamp |-> None]
\* worker.py 183-189: the record built in the except branch of process_query.
except_result(query, e) ==
    [query |-> Str(query), status |-> Str("failed"), rca_report |-> None,
     error |-> Str(e), timestamp |-> None]

\* worker.py 228: `while self.running` at the end of an iteration: the next
\* BLPOP, or the end of start() ("Worker stopped", 261).
LoopHead(w) == IF running[w] THEN "blpop" ELSE "stopped"

\* a read of the head that leaves it on the queue (LINDEX in place of BLPOP)
Pop_peek(w) ==
    /\ wpc[w] = "blpop"
    /\ queue # << >>
    /\ Decodes(Head(queue))
    /\ LET data == json_loads(Head(queue)) IN
         wjob' = [wjob EXCEPT ![w] = [query_id |-> Get(data, "query_id", None).s,
                                      query |-> Get(data, "query", None).s]]
    /\ wpc' = [wpc EXCEPT ![w] = "status_get"]
    /\ UNCHANGED << store, queue, reqVars, existing_data, masterVars, histVars >>
    /\ popped' = Append(popped, Get(json_loads(Head(queue)), "query_id", None).s)
    /\ UNCHANGED << pushed, lost >>
    /\ UNCHANGED running
    /\ UNCHANGED listing
\* worker.py 232-238: BLPOP removes the head of the queue and decodes it.
Pop(w) ==
    /\ wpc[w] = "blpop"
    /\ queue # << >>
    /\ Decodes(Head(queue))
    /\ LET data == json_loads(Head(queue)) IN
         wjob' = [wjob EXCEPT ![w] = [query_id |-> Get(data, "query_id", None).s,
                                      query |-> Get(data, "query", None).s]]
    /\ queue' = Tail(queue)
    /\ wpc' = [wpc EXCEPT ![w] = "status_get"]
    /\ UNCHANGED << store, reqVars, existing_data, masterVars, histVars >>
    /\ popped' = Append(popped, Get(json_loads(Head(queue)), "query_id", None).s)
    /\ UNCHANGED << pushed, lost >>
    /\ UNCHANGED running
    /\ UNCHANGED listing

\* the decoding error leaves start() and ends the loop
PopUndecodable_raise(w) ==
    /\ wpc[w] = "blpop"
    /\ queue # << >>
    /\ ~Decodes(Head(queue))
    /\ queue' = Tail(queue)
    /\ wpc' = [wpc EXCEPT ![w] = "stopped"]
    /\ UNCHANGED << store, reqVars, workerLocals, histVars, deliveryVars >>
    /\ UNCHANGED running
    /\ UNCHANGED listing
\* worker.py 232-236, 257-259: BLPOP delivers a message that json.loads cannot
\* decode; the except Exception of start() logs, sleeps and the loop goes on.
PopUndecodable(w) ==
    /\ wpc[w] = "blpop"
    /\ queue # << >>
    /\ ~Decodes(Head(queue))
    /\ queue' = Tail(queue)
    /\ wpc' = [wpc EXCEPT ![w] = LoopHead(w)]
    /\ UNCHANGED << store, reqVars, workerLocals, histVars, deliveryVars >>
    /\ UNCHANGED running
    /\ UNCHANGED listing

\* Another client of the Redis server appends a text to the list QUEUE_NAME
\* (redis_config.py 31): the list is not reserved to ask_query.
PushForeign ==
    /\ Cardinality({i \in 1..Len(queue) : ~Decodes(queue[i])}) < MaxForeign
    /\ queue' = Append(queue, NotJson)
    /\ UNCHANGED << store, reqVars, wpc, workerLocals, histVars, deliveryVars >>
    /\ UNCHANGED running
    /\ UNCHANGED listing

\* a BLPOP without timeout: on an empty queue the call does not return
PopTimeout_block(w) ==
    /\ wpc[w] = "blpop"
    /\ queue = << >>
    /\ UNCHANGED vars
\* worker.py 228-234: on an empty queue BLPOP returns None after its timeout of
\* one second, `if result` is false and the while tests self.running again.
PopTimeout(w) ==
    /\ wpc[w] = "blpop"
    /\ queue = << >>
    /\ wpc' = [wpc EXCEPT ![w] = LoopHead(w)]
    /\ UNCHANGED << store, queue, reqVars, workerLocals, histVars, deliveryVars, running >>
    /\ UNCHANGED listing

\* worker.py 263-265: stop(), called from another thread while start() runs.
Stop(w) ==
    /\ running[w]
    /\ wpc[w] # "stopped"
    /\ running' = [running EXCEPT ![w] = FALSE]
    /\ UNCHANGED << store, queue, reqVars, wpc, workerLocals, histVars, deliveryVars >>
    /\ UNCHANGED listing

\* an update that writes a processing record when it finds none (an upsert)
StatusGet_upsert(w) ==
    /\ wpc[w] = "status_get"
    /\ IF Exists(store, wjob[w].query_id)
       THEN /\ existing_data' = [existing_data EXCEPT ![w] = store[wjob[w].query_id].val]
            /\ wpc' = [wpc EXCEPT ![w] = "status_set"]
            /\ UNCHANGED << store, histVars >>
       ELSE /\ store' = setex(store, wjob[w].query_id, RESULT_TTL,
                              json_dumps([initial_result(wjob[w].query)
                                             EXCEPT !["status"] = Str("processing")]))
            /\ Wrote(wjob[w].query_id,
                     [initial_result(wjob[w].query) EXCEPT !["status"] = Str("processing")])
            /\ wpc' = [wpc EXCEPT ![w] = "route"]
            /\ UNCHANGED existing_data
    /\ UNCHANGED << queue, reqVars, wjob, masterVars >>
    /\ UNCHANGED deliveryVars
    /\ UNCHANGED running
    /\ UNCHANGED listing
\* worker.py 206-209: _update_query_status reads the record; with no record
\* there is nothing to update.
StatusGet(w) ==
    /\ wpc[w] = "status_get"
    /\ IF Exists(store, wjob[w].query_id)
       THEN /\ existing_data' = [existing_data EXCEPT ![w] = store[wjob[w].query_id].val]
            /\ wpc' = [wpc EXCEPT ![w] = "status_set"]
       ELSE /\ wpc' = [wpc EXCEPT ![w] = "route"]
            /\ UNCHANGED existing_data
    /\ UNCHANGED << store, queue, reqVars, wjob, masterVars, histVars >>
    /\ UNCHANGED deliveryVars
    /\ UNCHANGED running
    /\ UNCHANGED listing

\* a status update that writes the record back without its query text
processing_data_blank(text, status) ==
    [json_loads(text) EXCEPT !["status"] = Str(status), !["query"] = Str("")]
\* worker.py 210-216: the record read, with status "processing", written back.
processing_data(text, status) == [json_loads(text) EXCEPT !["status"] = Str(status)]

StatusSet(w) ==
    /\ wpc[w] = "status_set"
    /\ store' = setex(store, wjob[w].query_id, RESULT_TTL,
                      json_dumps(processing_data(existing_data[w], "processing")))
    /\ Wrote(wjob[w].query_id, processing_data(existing_data[w], "processing"))
    /\ existing_data' = [existing_data EXCEPT ![w] = NoText]
    /\ wpc' = [wpc EXCEPT ![w] = "route"]
    /\ UNCHANGED << queue, reqVars, wjob, masterVars >>
    /\ UNCHANGED deliveryVars
    /\ UNCHANGED running
    /\ UNCHANGED listing

\* worker.py 217-218: the GET or the SETEX of _update_query_status raises; the
\* exception is logged and the status stays as it is.
StatusUpdateFails(w) ==
    /\ wpc[w] \in {"status_get", "status_set"}
    /\ existing_data' = [existing_data EXCEPT ![w] = NoText]
    /\ wpc' = [wpc EXCEPT ![w] = "route"]
    /\ UNCHANGED << store, queue, reqVars, wjob, masterVars, histVars >>
    /\ UNCHANGED deliveryVars
    /\ UNCHANGED running
    /\ UNCHANGED listing

\* master_agent.py 69: ROUTING
Route(w) ==
    /\ wpc[w] = "route"
    /\ \E c \in ClassificationOutcomes :
         /\ routing_decision' = [routing_decision EXCEPT ![w] = _route_query(wjob[w].query, c)]
         /\ externals' = [externals EXCEPT ![w].classification = c]
    /\ wpc' = [wpc EXCEPT ![w] = "invoke"]
    /\ UNCHANGED << store, queue, reqVars, wjob, existing_data,
                    agent_responses, response, job_log, histVars >>
    /\ UNCHANGED deliveryVars
    /\ UNCHANGED running
    /\ UNCHANGED listing

\* The outcomes the environment can give to the agents a routing selects.
AgentOutcomes(routing) ==
    {o \in [Agents -> CallOutcomes \cup {"not_invoked"}] :
        \A a \in Agents : (o[a] = "not_invoked") <=> ~routing[a]}

\* INVOKING that hands over to AGGREGATING after the first block, with the
\* other selected agents still to be invoked
InvokeAgents_partial(w) ==
    /\ wpc[w] = "invoke"
    /\ \E o \in AgentOutcomes(routing_decision[w]) :
         /\ agent_responses' = [agent_responses EXCEPT ![w] =
               invoke_agent(NoResponses, routing_decision[w], "sensor_agent",
                            wjob[w].query, o)]
         /\ externals' = [externals EXCEPT ![w] =
               [classification |-> NoClassification, agents |-> o]]
    /\ wpc' = [wpc EXCEPT ![w] = "aggregate"]
    /\ UNCHANGED << store, queue, reqVars, wjob, existing_data,
                    routing_decision, response, job_log, histVars >>
    /\ UNCHANGED deliveryVars
    /\ UNCHANGED running
    /\ UNCHANGED listing
\* master_agent.py 73: INVOKING
InvokeAgents(w) ==
    /\ wpc[w] = "invoke"
    /\ \E o \in AgentOutcomes(routing_decision[w]) :
         /\ agent_responses' = [agent_responses EXCEPT ![w] =
               _invoke_agents(wjob[w].query, routing_decision[w], o)]
         /\ externals' = [externals EXCEPT ![w] =
               [classification |-> NoClassification, agents |-> o]]
    /\ wpc' = [wpc EXCEPT ![w] = "aggregate"]
    /\ UNCHANGED << store, queue, reqVars, wjob, existing_data,
                    routing_decision, response, job_log, histVars >>
    /\ UNCHANGED deliveryVars
    /\ UNCHANGED running
    /\ UNCHANGED listing

\* master_agent.py 76-98: AGGREGATING and DONE
Aggregate(w) ==
    /\ wpc[w] = "aggregate"
    /\ \E o \in CallOutcomes :
         /\ response' = [response EXCEPT ![w] =
               master_process_query(wjob[w].query, agent_responses[w], o)]
         /\ job_log' = [job_log EXCEPT ![w] =
               [all_selected |-> \A a \in Agents : routing_decision[w][a],
                all_succeeded |-> \A k \in DOMAIN agent_responses[w] :
                                     Truthy(agent_responses[w][k].success),
                synthesis |-> o]]
    \* routing_decision and agent_responses are locals of MasterAgent.process_query
    /\ routing_decision' = [routing_decision EXCEPT ![w] = NoRouting]
    /\ agent_responses' = [agent_responses EXCEPT ![w] = NoResponses]
    /\ externals' = [externals EXCEPT ![w] = NoExternals]
    /\ wpc' = [wpc EXCEPT ![w] = "store_result"]
    /\ UNCHANGED << store, queue, reqVars, wjob, existing_data,
                    histVars >>
    /\ UNCHANGED deliveryVars
    /\ UNCHANGED running
    /\ UNCHANGED listing

\* master_agent.py 52-98: what MasterAgent.process_query can return for a query,
\* over everything its external calls can do
OrchestratorResultsOf ==
    [query \in Queries |->
        UNION {{master_process_query(query,
                                     _invoke_agents(query, _route_query(query, c), o), syn) :
                   o \in AgentOutcomes(_route_query(query, c)), syn \in CallOutcomes} :
               c \in ClassificationOutcomes}]
OrchestratorResults(query) == OrchestratorResultsOf[query]

\* worker.py 135: the call of MasterAgent.process_query (master_agent.py 52-98)
\* as one step, ROUTING to DONE.  The call reads and writes nothing but its own
\* locals, so other processes see no difference between this and its three steps.
Orchestrate(w) ==
    /\ wpc[w] = "route"
    /\ \E r \in OrchestratorResults(wjob[w].query) :
         response' = [response EXCEPT ![w] = r]
    /\ wpc' = [wpc EXCEPT ![w] = "store_result"]
    /\ UNCHANGED << store, queue, reqVars, wjob, existing_data, routing_decision,
                    agent_responses, externals, job_log, histVars, deliveryVars >>
    /\ UNCHANGED running
    /\ UNCHANGED listing

\* a process_query that returns without the SETEX of the terminal record
StoreResult_skip(w) ==
    /\ wpc[w] = "store_result"
    /\ wjob' = [wjob EXCEPT ![w] = NoJob]
    /\ response' = [response EXCEPT ![w] = NoDict]
    /\ job_log' = [job_log EXCEPT ![w] = NoLog]
    /\ wpc' = [wpc EXCEPT ![w] = LoopHead(w)]
    /\ UNCHANGED << store, queue, reqVars, existing_data, routing_decision, agent_responses,
                    externals, histVars >>
    /\ UNCHANGED deliveryVars
    /\ UNCHANGED running
    /\ UNCHANGED listing

\* worker.py 138-174: the terminal record is built and written with SETEX, and
\* process_query returns to the head of the loop (228).
StoreResult(w) ==
    /\ wpc[w] = "store_result"
    /\ LET result == terminal_result(wjob[w].query, response[w]) IN
         /\ store' = setex(store, wjob[w].query_id, RESULT_TTL, json_dumps(result))
         /\ Wrote(wjob[w].query_id, result)
    /\ wjob' = [wjob EXCEPT ![w] = NoJob]
    /\ response' = [response EXCEPT ![w] = NoDict]
    /\ job_log' = [job_log EXCEPT ![w] = NoLog]
    /\ wpc' = [wpc EXCEPT ![w] = LoopHead(w)]
    /\ UNCHANGED << queue, reqVars, existing_data, routing_decision, agent_responses,
                    externals >>
    /\ UNCHANGED deliveryVars
    /\ UNCHANGED running
    /\ UNCHANGED listing

\* worker.py 159-163, 176: the SETEX of the terminal record raises into the
\* except branch of process_query.
StoreResultFails(w) ==
    /\ wpc[w] = "store_result"
    /\ response' = [response EXCEPT ![w] = NoDict]
    /\ job_log' = [job_log EXCEPT ![w] = NoLog]
    /\ wpc' = [wpc EXCEPT ![w] = "except"]
    /\ UNCHANGED << store, queue, reqVars, wjob, existing_data, routing_decision,
                    agent_responses, externals, histVars >>
    /\ UNCHANGED deliveryVars
    /\ UNCHANGED running
    /\ UNCHANGED listing

\* worker.py 176-202: the except branch writes a failed record with str(e).
ExceptStore(w) ==
    /\ wpc[w] = "except"
    /\ LET result == except_result(wjob[w].query, RedisErrMsg) IN
         /\ store' = setex(store, wjob[w].query_id, RESULT_TTL, json_dumps(result))
         /\ Wrote(wjob[w].query_id, result)
    /\ wjob' = [wjob EXCEPT ![w] = NoJob]
    /\ wpc' = [wpc EXCEPT ![w] = LoopHead(w)]
    /\ UNCHANGED << queue, reqVars, existing_data, masterVars >>
    /\ UNCHANGED deliveryVars
    /\ UNCHANGED running
    /\ UNCHANGED listing

\* worker.py 192-196, 257-259: the SETEX of the except branch raises too; the
\* exception leaves process_query, start() logs it and the loop goes on.
ExceptStoreFails(w) ==
    /\ wpc[w] = "except"
    /\ wjob' = [wjob EXCEPT ![w] = NoJob]
    /\ wpc' = [wpc EXCEPT ![w] = LoopHead(w)]
    /\ UNCHANGED << store, queue, reqVars, existing_data, masterVars, histVars >>
    /\ UNCHANGED deliveryVars
    /\ UNCHANGED running
    /\ UNCHANGED listing

\* The worker process dies while it holds a job (kill, power loss).  Nothing
\* in worker.py 228-259 acknowledges or re-queues a message; the process that
\* is started afterwards (worker.py 268-277) begins at the head of the loop.
Crash(w) ==
    /\ wpc[w] \in {"status_get", "status_set", "route", "invoke", "aggregate",
                   "store_result", "except"}
    /\ lost' = lost \cup {wjob[w].query_id}
    /\ wpc' = [wpc EXCEPT ![w] = "blpop"]
    /\ wjob' = [wjob EXCEPT ![w] = NoJob]
    /\ existing_data' = [existing_data EXCEPT ![w] = NoText]
    /\ routing_decision' = [routing_decision EXCEPT ![w] = NoRouting]
    /\ agent_responses' = [agent_responses EXCEPT ![w] = NoResponses]
    /\ response' = [response EXCEPT ![w] = NoDict]
    /\ externals' = [externals EXCEPT ![w] = NoExternals]
    /\ job_log' = [job_log EXCEPT ![w] = NoLog]
    /\ UNCHANGED << store, queue, reqVars, histVars, pushed, popped >>
    /\ running' = [running EXCEPT ![w] = TRUE]
    /\ UNCHANGED listing

\* ------------------------------------------------------------ specification
\* Ctrl+C: Python raises KeyboardInterrupt in the main thread at whatever
\* statement is running.  No except Exception of the agents, of MasterAgent or of
\* process_query catches it; the except KeyboardInterrupt of start() (worker.py
\* 251-254) sets running to False and leaves the loop, and main() (280-282)
\* calls stop().  Nothing is written for the job the Worker was holding.
Interrupt(w) ==
    /\ wpc[w] # "stopped"
    /\ lost' = IF wpc[w] = "blpop" THEN lost ELSE lost \cup {wjob[w].query_id}
    /\ wpc' = [wpc EXCEPT ![w] = "stopped"]
    /\ wjob' = [wjob EXCEPT ![w] = NoJob]
    /\ existing_data' = [existing_data EXCEPT ![w] = NoText]
    /\ routing_decision' = [routing_decision EXCEPT ![w] = NoRouting]
    /\ agent_responses' = [agent_responses EXCEPT ![w] = NoResponses]
    /\ response' = [response EXCEPT ![w] = NoDict]
    /\ externals' = [externals EXCEPT ![w] = NoExternals]
    /\ job_log' = [job_log EXCEPT ![w] = NoLog]
    /\ UNCHANGED << store, queue, reqVars, histVars, pushed, popped >>
    /\ running' = [running EXCEPT ![w] = FALSE]
    /\ UNCHANGED listing

Init ==
    /\ store = [k \in JobIds |-> Nil]
    /\ queue = << >>
    /\ reqPc = [r \in Requests |-> "none"]
    /\ reqId = [r \in Requests |-> 0]
    /\ reqQuery = [r \in Requests |-> ""]
    /\ wpc = [w \in Pool |-> "blpop"]
    /\ wjob = [w \in Pool |-> NoJob]
    /\ existing_data = [w \in Pool |-> NoText]
    /\ routing_decision = [w \in Pool |-> NoRouting]
    /\ agent_responses = [w \in Pool |-> NoResponses]
    /\ response = [w \in Pool |-> NoDict]
    /\ externals = [w \in Pool |-> NoExternals]
    /\ job_log = [w \in Pool |-> NoLog]
    /\ written = [k \in JobIds |-> NoDict]
    /\ age = [k \in JobIds |-> 0]
    /\ seen = [k \in JobIds |-> {}]
    /\ pushed = << >>
    /\ popped = << >>
    /\ lost = {}
    /\ running = [w \in Pool |-> TRUE]
    /\ listing = NoListing

Next ==
    \/ \E r \in Requests, q \in Queries : AskStore(r, q)
    \/ \E r \in Requests : AskPush(r)
    \/ \E r \in Requests : AskReturn(r)
    \/ \E w \in Workers : Pop(w)
    \/ \E w \in Workers : StatusGet(w)
    \/ \E w \in Workers : StatusSet(w)
    \/ \E w \in Workers : Route(w)
    \/ \E w \in Workers : InvokeAgents(w)
    \/ \E w \in Workers : Aggregate(w)
    \/ \E w \in Workers : StoreResult(w)
    \/ Tick

Spec == Init /\ [][Next]_vars

\* The same system with Redis commands that can raise (connection lost); the
\* Orchestrator call, which uses no Redis command, is one step.
NextFault ==
    \/ \E r \in Requests, q \in Queries : AskStore(r, q)
    \/ \E r \in Requests : AskPush(r)
    \/ \E r \in Requests : AskReturn(r)
    \/ \E w \in Workers : Pop(w)
    \/ \E w \in Workers : StatusGet(w)
    \/ \E w \in Workers : StatusSet(w)
    \/ \E w \in Workers : Orchestrate(w)
    \/ \E w \in Workers : StoreResult(w)
    \/ Tick
    \/ \E r \in Requests, q \in Queries : AskStoreFails(r, q)
    \/ \E r \in Requests : AskPushFails(r)
    \/ \E w \in Workers : StatusUpdateFails(w)
    \/ \E w \in Workers : StoreResultFails(w)
    \/ \E w \in Workers : ExceptStore(w)
    \/ \E w \in Workers : ExceptStoreFails(w)

SpecFault == Init /\ [][NextFault]_vars

\* The same system with a worker process that can die while it holds a job.
NextCrash ==
    \/ Next
    \/ \E w \in Workers : Crash(w)

SpecCrash == Init /\ [][NextCrash]_vars

\* The same system scaled out: every worker process of the pool runs the loop
\* on the one queue.  The jobs are taken within the retention window of their
\* records (expiry is in Spec), and the Orchestrator call is one step.
NextScaled ==
    \/ \E r \in Requests, q \in Queries : AskStore(r, q)
    \/ \E r \in Requests : AskPush(r)
    \/ \E r \in Requests : AskReturn(r)
    \/ \E w \in Pool : Pop(w)
    \/ \E w \in Pool : StatusGet(w)
    \/ \E w \in Pool : StatusSet(w)
    \/ \E w \in Pool : Orchestrate(w)
    \/ \E w \in Pool : StoreResult(w)

SpecScaled == Init /\ [][NextScaled]_vars

\* The Worker with its operator pressing Ctrl+C.
NextStop ==
    \/ Next
    \/ \E w \in Workers : Interrupt(w)

SpecStop == Init /\ [][NextStop]_vars

\* The Worker with stop() called at any moment.  A step of the Worker is one of
\* the statements of start() and process_query; the process is scheduled again
\* and again and its calls return, so a step that stays possible is taken.
WorkerStep(w) ==
    \/ Pop(w)
    \/ PopTimeout(w)
    \/ StatusGet(w)
    \/ StatusSet(w)
    \/ Orchestrate(w)
    \/ StoreResult(w)

NextIdle ==
    \/ \E r \in Requests, q \in Queries : AskStore(r, q)
    \/ \E r \in Requests : AskPush(r)
    \/ \E r \in Requests : AskReturn(r)
    \/ \E w \in Workers : WorkerStep(w)
    \/ \E w \in Workers : Stop(w)

SpecIdle == Init /\ [][NextIdle]_vars /\ \A w \in Workers : WF_vars(WorkerStep(w))

\* The system with a Worker that keeps running: nobody stops it, the process
\* keeps being scheduled, Redis answers every command, and every call of the
\* Orchestrator returns or raises.  Keys expire.
NextLive ==
    \/ \E r \in Requests, q \in Queries : AskStore(r, q)
    \/ \E r \in Requests : AskPush(r)
    \/ \E r \in Requests : AskReturn(r)
    \/ \E w \in Workers : WorkerStep(w)
    \/ Tick

SpecLive == Init /\ [][NextLive]_vars /\ \A w \in Workers : WF_vars(WorkerStep(w))

\* The system with the listing of the Result API.  The API process runs one
\* handler at a time; the Worker and the expiry of keys go on during a listing.
\* the query of the r-th request: the two queries in turn
ListQuery(r) == IF r % 2 = 1 THEN "vibration MCH_003" ELSE ""

NextList ==
    \/ \E r \in Requests : listing.pc = "idle" /\ AskStore(r, ListQuery(r))
    \/ \E r \in Requests : AskPush(r)
    \/ \E r \in Requests : AskReturn(r)
    \/ \E w \in Workers : Pop(w)
    \/ \E w \in Workers : StatusGet(w)
    \/ \E w \in Workers : StatusSet(w)
    \/ \E w \in Workers : Orchestrate(w)
    \/ \E w \in Workers : StoreResult(w)
    \/ Tick
    \/ ListKeys
    \/ ListGet
    \/ ListReturn

SpecList == Init /\ [][NextList]_vars

\* The Worker with messages it cannot decode and with Redis commands that raise
\* while a job is processed.
NextBadJob ==
    \/ \E r \in Requests, q \in Queries : AskStore(r, q)
    \/ \E r \in Requests : AskPush(r)
    \/ \E r \in Requests : AskReturn(r)
    \/ PushForeign
    \/ \E w \in Workers : Pop(w)
    \/ \E w \in Workers : PopUndecodable(w)
    \/ \E w \in Workers : StatusGet(w)
    \/ \E w \in Workers : StatusSet(w)
    \/ \E w \in Workers : StatusUpdateFails(w)
    \/ \E w \in Workers : Orchestrate(w)
    \/ \E w \in Workers : StoreResult(w)
    \/ \E w \in Workers : StoreResultFails(w)
    \/ \E w \in Workers : ExceptStore(w)
    \/ \E w \in Workers : ExceptStoreFails(w)
    \/ Tick

SpecBadJob == Init /\ [][NextBadJob]_vars

\* ------------------------------------------------------------------ claims
Record(j) == json_loads(store[j].val)
Status(j) == Record(j)["status"].s
Terminal == {"completed", "failed"}
Rank(st) == IF st = "queued" THEN 0 ELSE IF st = "processing" THEN 1 ELSE 2
InQueue(j) == \E i \in 1..Len(queue) : json_loads(queue[i])["query_id"].s = j
Routed(w) == wpc[w] \in {"invoke", "aggregate"}
\* the worker's step that writes the terminal record of job j (worker.py 159-163)
Stores(w, j) == wpc[w] = "store_result" /\ wjob[w].query_id = j /\ wpc'[w] = "blpop"

\* One step seen from job j: a change of the stored status follows one of the
\* three edges, no status written is behind one written before (also when the
\* record expired in between), and a terminal status once written is the only
\* status written from then on.
C1_StatusStep(j) ==
    Exists(store', j) =>
        LET new == Status(j)' IN
        /\ Exists(store, j) /\ Status(j) # new =>
              <<Status(j), new>> \in {<<"queued", "processing">>,
                                      <<"processing", "completed">>,
                                      <<"processing", "failed">>}
        /\ \A old \in seen[j] : Rank(old) <= Rank(new)
        /\ \A old \in seen[j] \cap Terminal : new = old
C2_QueuedOnReturn ==
    [][\A r \in Requests :
          reqPc[r] = "pushed" /\ reqPc'[r] = "returned" /\ age[reqId[r]] < RESULT_TTL =>
             /\ \A r2 \in Requests \ {r} :
                   reqPc[r2] = "returned" => reqId[r2] # reqId[r]
             /\ get_result(reqId[r])'.http = 200
             /\ get_result(reqId[r])'.status = Str("queued")]_vars
\* C2 amended: the job_ids returned are pairwise different; a returned job_id
\* resolves as long as the retention window of its last write has not run out,
\* and reports queued as long as the job is still in the JobQueue.
C2_QueuedWhileInQueue ==
    /\ \A r1, r2 \in Requests :
          reqPc[r1] = "returned" /\ reqPc[r2] = "returned" /\ r1 # r2
             => reqId[r1] # reqId[r2]
    /\ \A r \in Requests : reqPc[r] = "returned" =>
          /\ age[reqId[r]] < RESULT_TTL => get_result(reqId[r]).http = 200
          /\ InQueue(reqId[r]) /\ get_result(reqId[r]).http = 200
                => get_result(reqId[r]).status = Str(AskResponse(r).status)
C2_Witness ==
    \E r1, r2 \in Requests :
        /\ r1 # r2 /\ reqPc[r1] = "returned" /\ reqPc[r2] = "returned"
        /\ InQueue(reqId[r2]) /\ get_result(reqId[r2]).http = 200
        /\ \E w \in Workers : wpc[w] # "blpop"

\* C3: the routing decision returned by _route_query always selects at least
\* one agent, whatever the query and whatever the classification call did.
C3_RoutingNonEmpty ==
    \A w \in Workers : Routed(w) => \E a \in Agents : routing_decision[w][a]
C3_Witness ==
    \E w \in Workers : /\ wpc[w] = "invoke" /\ wjob[w].query = ""
                       /\ ~externals[w].classification.raised
                       /\ externals[w].classification.yes = {}
                       /\ \E a \in Agents : routing_decision[w][a]

\* C4: a classification call that raises and one that returns no YES flag
\* give the same routing decision, the one that selects all three agents.
C4_SameDefault ==
    /\ \A q \in Queries :
          /\ _route_query(q, [raised |-> TRUE, yes |-> {}])
                = _route_query(q, [raised |-> FALSE, yes |-> {}])
          /\ _route_query(q, [raised |-> TRUE, yes |-> {}]) = AllAgents
    /\ \A w \in Workers :
          wpc[w] = "invoke" /\ (\/ externals[w].classification.raised
                                \/ externals[w].classification.yes = {})
             => routing_decision[w] = AllAgents
C4_Witness ==
    \E w \in Workers : /\ wpc[w] = "invoke" /\ wjob[w].query = ""
                       /\ externals[w].classification.raised
                       /\ routing_decision[w] = AllAgents

\* After INVOKING: for an agent b whose calls raised, every other selected agent
\* a has its entry, equal to the entry it has when b's calls return.
C5_Collected(w) ==
    wpc[w] = "aggregate" =>
        \A b \in Agents : externals[w].agents[b] = "raises" =>
            \A a \in Agents \ {b} : routing_decision[w][a] =>
                /\ ResponseKey(a) \in DOMAIN agent_responses[w]
                /\ agent_responses[w][ResponseKey(a)] =
                      _invoke_agents(wjob[w].query, routing_decision[w],
                          [externals[w].agents EXCEPT ![b] = "returns"])[ResponseKey(a)]
                /\ agent_responses[w][ResponseKey(a)] =
                      agent_process_query(a, wjob[w].query, externals[w].agents[a])
\* The job of a failed agent goes on to the write of a terminal record.
C5_Terminates(w, j) ==
    Stores(w, j) /\ ~job_log[w].all_succeeded =>
        /\ Exists(store, j)'
        /\ Status(j)' \in Terminal
\* C5: when the calls of one selected agent raise, every other selected agent
\* is still invoked and has its entry in the collected mapping, with the content
\* it has when the failing agent succeeds, and the job goes on to the write of
\* a terminal record.
C5_Isolation ==
    [][\A w \in Workers : /\ C5_Collected(w) /\ C5_Collected(w)'
                           /\ \A j \in JobIds : C5_Terminates(w, j)]_vars
C5_Witness ==
    \E w \in Workers :
        /\ wpc[w] = "aggregate" /\ routing_decision[w] = AllAgents
        /\ externals[w].agents["sensor_agent"] = "raises"
        /\ externals[w].agents["operator_agent"] = "returns"
        /\ Truthy(agent_responses[w]["operator_reports"].success)
        /\ ~Truthy(agent_responses[w]["sensor_data"].success)

C6_Step(w, j) ==
    Stores(w, j) /\ job_log[w].synthesis = "raises" =>
        /\ Exists(store, j)'
        /\ Record(j)'["status"] = Str("failed")
        /\ Record(j)'["rca_report"] = None
        /\ Record(j)'["error"] = Str(SynthErrMsg)
\* C6: when the synthesis call raises, the terminal record the Worker writes is
\* failed, has no report, and its error is the message the synthesis call raised.
C6_SynthesisFailure == [][\A w \in Workers, j \in JobIds : C6_Step(w, j)]_vars

C7_Step(w, j) ==
    Stores(w, j) /\ job_log[w].all_selected /\ job_log[w].all_succeeded
                 /\ job_log[w].synthesis = "returns" =>
        /\ Exists(store, j)'
        /\ Record(j)'["status"] = Str("completed")
        /\ Record(j)'["rca_report"] # None
        /\ Record(j)'["error"] = None
\* C7: when routing selects all three agents, all three succeed and the
\* synthesis call returns a narrative, the terminal record the Worker writes is
\* completed, with a report and no error.
C7_AllSucceed == [][\A w \in Workers, j \in JobIds : C7_Step(w, j)]_vars

\* C8: no stored record has both a report and an error.
C8_ReportXorError ==
    \A j \in JobIds : Exists(store, j) =>
        ~(Record(j)["rca_report"] # None /\ Record(j)["error"] # None)
C8_Witness ==
    \E j, k \in JobIds :
        /\ Exists(store, j) /\ Status(j) = "failed" /\ Record(j)["error"] # None
        /\ Record(j)["rca_report"] = None
        /\ Exists(store, k) /\ Status(k) = "processing" /\ Record(k)["error"] = None

\* C9: every stored record has one of the four statuses, and a failed record
\* has a non-empty error text and no report, on both failure paths of the Worker.
C9_FailedHasError ==
    \A j \in JobIds : Exists(store, j) =>
        /\ Status(j) \in {"queued", "processing", "completed", "failed"}
        /\ Status(j) = "failed" =>
              /\ Record(j)["error"].t = "str"
              /\ Record(j)["error"].s # ""
              /\ Record(j)["rca_report"] = None
C9_Witness ==
    \E j, k \in JobIds :
        /\ Exists(store, j) /\ Status(j) = "failed"
        /\ Record(j)["error"] = Str(RedisErrMsg)
        /\ Exists(store, k) /\ Status(k) = "failed"
        /\ Record(k)["error"] = Str(TypeErrMsg)

\* C10: a record read back before its retention window has run out equals the
\* record written; once the window has run out the read gives not-found.
C10_RoundTrip ==
    \A j \in JobIds : written[j] # NoDict =>
        /\ age[j] < RESULT_TTL =>
              /\ get_result(j).http = 200
              /\ Record(j) = written[j]
              /\ \A f \in DOMAIN written[j] : get_result(j)[f] = written[j][f]
        /\ age[j] >= RESULT_TTL => get_result(j) = NotFound
C10_Witness ==
    \E j, k \in JobIds :
        /\ written[j] # NoDict /\ age[j] > 0 /\ age[j] < RESULT_TTL
        /\ get_result(j).http = 200
        /\ written[k] # NoDict /\ age[k] >= RESULT_TTL /\ get_result(k) = NotFound

\* a job_id no ask_query has drawn, and one whose record has expired
Unknown(j) == written[j] = NoDict /\ j \notin UsedIds
Expired(j) == written[j] # NoDict /\ ~Exists(store, j)
\* C11: get_result answers a job_id whose record expired exactly as it answers
\* a job_id that was never submitted: the same not-found response.
C11_NotFoundSame ==
    \A j, k \in JobIds : Unknown(j) /\ Expired(k) =>
        /\ get_result(k) = get_result(j)
        /\ get_result(k) = NotFound
C11_Witness ==
    \E j, k \in JobIds : /\ Unknown(j) /\ Expired(k)
                         /\ seen[k] = {"queued", "processing", "failed"}
                         /\ get_result(k).http = 404

\* One step seen from key j: a step that stores a value under the key leaves it
\* with the full retention window; every live key has an expiry within it.
C12_WriteStep(j) ==
    /\ Exists(store, j)' /\ store'[j].val # store[j].val => store'[j].ttl = RESULT_TTL
    /\ Exists(store, j)' /\ age'[j] = 0 => store'[j].ttl = RESULT_TTL
    /\ Exists(store, j)' => store'[j].ttl > 0 /\ store'[j].ttl <= RESULT_TTL
\* C12: every write of a record (the queued write, the processing update, both
\* terminal writes) sets its remaining time-to-live to RESULT_TTL; no write
\* keeps an older expiry and no record is stored without one.
C12_TtlReset == [][\A j \in JobIds : C12_WriteStep(j)]_vars
C12_Witness ==
    \E r1, r2 \in Requests :
        /\ r1 < r2 /\ reqPc[r1] = "returned" /\ reqPc[r2] = "returned"
        /\ Exists(store, reqId[r2]) /\ Status(reqId[r2]) = "queued"
        /\ store[reqId[r2]].ttl < RESULT_TTL
        /\ Exists(store, reqId[r1]) /\ Status(reqId[r1]) = "failed"
        /\ Record(reqId[r1])["error"] = Str(RedisErrMsg)
        /\ store[reqId[r1]].ttl = RESULT_TTL

\* the job_ids of the messages on the queue, head first
QueueIds == [i \in 1..Len(queue) |-> json_loads(queue[i])["query_id"].s]
\* C13: the one Worker pops the jobs in the order their pushes completed: the
\* jobs popped so far are the first of the jobs pushed, in the same order, and
\* the queue holds the rest, in the same order.
C13_Fifo ==
    /\ Len(popped) <= Len(pushed)
    /\ \A i \in 1..Len(popped) : popped[i] = pushed[i]
    /\ popped \o QueueIds = pushed
C13_Witness ==
    /\ Len(popped) >= 2 /\ popped[1] # popped[2]
    /\ \E r1, r2 \in Requests : /\ r1 < r2 /\ reqId[r1] = popped[1] /\ reqId[r2] = popped[2]
                                /\ reqPc[r1] = "returned" /\ reqPc[r2] = "returned"

Range(seq) == {seq[i] : i \in 1..Len(seq)}
Holds(w, j) == wpc[w] # "blpop" /\ wjob[w].query_id = j
\* C14: a pushed job is delivered to at most one pop, a pop removes exactly one
\* job, a popped job is never on the queue again, and a job whose worker died
\* while holding it is not held or processed again and has no terminal status.
C14_AtMostOnce ==
    /\ \A i, k \in 1..Len(popped) : i # k => popped[i] # popped[k]
    /\ Len(popped) + Len(queue) = Len(pushed)
    /\ \A j \in Range(popped) : ~InQueue(j)
    /\ \A j \in lost : /\ j \in Range(popped)
                       /\ \A w \in Workers : ~Holds(w, j)
                       /\ seen[j] \cap Terminal = {}
                       /\ Exists(store, j) => Status(j) \notin Terminal
C14_Witness ==
    \E j \in lost, k \in JobIds :
        /\ Exists(store, j) /\ Status(j) = "processing"
        /\ k # j /\ k \in Range(popped) /\ "failed" \in seen[k]
        /\ \E i, n \in 1..Len(popped) : i < n /\ popped[i] = j /\ popped[n] = k

\* One step seen from job j: a step that stores processing or a terminal status
\* for j is a step of a worker that holds j.
C15_WriterHolds(j) ==
    Exists(store, j)' /\ store'[j].val # store[j].val
                      /\ Status(j)' \in {"processing"} \cup Terminal =>
        \E w \in Pool : Holds(w, j) /\ wpc'[w] # wpc[w]
\* C15: with several workers on one queue no job is popped twice or held by two
\* workers, the processing update and the terminal write of a job are made by
\* the worker that popped it, and the status of every job moves forward only.
C15_Scaled ==
    [][/\ \A i, k \in 1..Len(popped') : i # k => popped'[i] # popped'[k]
       /\ \A w1, w2 \in Pool : \A j \in JobIds :
             Holds(w1, j)' /\ Holds(w2, j)' => w1 = w2
       /\ \A j \in JobIds : C15_WriterHolds(j) /\ C1_StatusStep(j)]_vars
C15_Witness ==
    \E w1, w2 \in Pool :
        /\ w1 # w2
        /\ wpc[w1] = "route" /\ wpc[w2] = "store_result"
        /\ wjob[w1].query_id # wjob[w2].query_id
        /\ Status(wjob[w1].query_id) = "processing"
        /\ Status(wjob[w2].query_id) = "processing"

\* C16: when the Submission API cannot push the job (the RPUSH raises after the
\* record was written, or nothing could be written at all) the job is never
\* created: once the handler has answered with its error, there is no
\* ResultRecord under that job_id and no message for it in the JobQueue.
C16_NeverCreated ==
    \A r \in Requests :
        reqPc[r] = "error500" =>
            /\ ~Exists(store, reqId[r])
            /\ ~InQueue(reqId[r])

\* C17: a bad job never ends the Worker loop.  A message that does not decode is
\* dropped, nothing is stored for it and the Worker is back at the BLPOP; an
\* exception raised while a job is processed leaves the Worker at the BLPOP as
\* well.  A job whose Orchestrator run ended with an exception gets a failed
\* record at the terminal write, and the except branch of process_query, when
\* its write goes through, writes a failed record with the text of the exception.
C17_DropStep(w) ==
    wpc[w] = "blpop" /\ queue # << >> /\ ~Decodes(Head(queue)) /\ queue' = Tail(queue) =>
        /\ wpc'[w] = "blpop"
        /\ store' = store
        /\ wjob'[w] = NoJob
C17_JobStep(w, j) ==
    /\ Stores(w, j) /\ ~Truthy(response[w].success) /\ store' # store =>
          /\ Exists(store, j)' /\ Status(j)' = "failed"
          /\ Record(j)'["error"] = response[w].error
    /\ wpc[w] = "except" /\ wjob[w].query_id = j /\ wpc'[w] # "except" =>
          /\ wpc'[w] = "blpop"
          /\ \/ store' = store
             \/ /\ Exists(store, j)' /\ Status(j)' = "failed"
                /\ Record(j)'["error"] = Str(RedisErrMsg)
                /\ store'[j].ttl = RESULT_TTL
C17_LoopGoesOn ==
    [][\A w \in Workers :
          /\ wpc'[w] # "stopped"
          /\ C17_DropStep(w)
          /\ \A j \in JobIds : C17_JobStep(w, j)]_vars
\* an undecodable message was dropped between two jobs: both jobs were popped
\* after it was pushed and both have their failed record, one from the except
\* branch; the Worker is at the BLPOP again
C17_Witness ==
    \E j, k \in JobIds :
        /\ j # k
        /\ Len(popped) = 2 /\ popped[1] = j /\ popped[2] = k
        /\ Exists(store, j) /\ Status(j) = "failed" /\ Record(j)["error"] = Str(RedisErrMsg)
        /\ Exists(store, k) /\ Status(k) = "failed" /\ Record(k)["error"] = Str(TypeErrMsg)
        /\ queue = << NotJson >>
        /\ \A w \in Workers : wpc[w] = "blpop"

\* C18: a job that was popped runs to its terminal record: in every state, a
\* job that a Worker has popped is either still held by that Worker or has had
\* a completed or failed record written; and the Worker stops only from the
\* BLPOP, between two jobs.
C18_NoCancellation ==
    /\ \A j \in Range(popped) :
          \/ \E w \in Workers : Holds(w, j) /\ wpc[w] # "stopped"
          \/ seen[j] \cap Terminal # {}
    /\ lost = {}

\* C19: the queued record and the queued job go together: outside the handler's
\* own two writes, a live record with status queued belongs to a job that is in
\* the JobQueue or held by a Worker.
C19_QueuedHasJob ==
    \A j \in JobIds :
        /\ Exists(store, j)
        /\ Status(j) = "queued"
        /\ ~\E r \in Requests : reqPc[r] = "stored" /\ reqId[r] = j
        => \/ InQueue(j)
           \/ \E w \in Workers : Holds(w, j)

\* C20: the update to processing is best-effort.  When the Worker finds no
\* record for the job it popped, or the update raises, that step stores
\* nothing and the job goes on to the Orchestrator; the terminal write then
\* stores a completed or failed record with a full RESULT_TTL, whether or not
\* a record was there before.
C20_Step(w, j) ==
    /\ wpc[w] = "status_get" /\ wjob[w].query_id = j /\ wpc'[w] # "status_get"
       /\ ~Exists(store, j) =>
          /\ store' = store
          /\ wpc'[w] = "route" /\ wjob'[w] = wjob[w]
    /\ wpc[w] \in {"status_get", "status_set"} /\ wjob[w].query_id = j
       /\ wpc'[w] # wpc[w] /\ store' = store =>
          /\ wpc'[w] \in {"status_set", "route"} /\ wjob'[w] = wjob[w]
    /\ wpc[w] = "route" /\ wpc'[w] # "route" =>
          /\ wpc'[w] = "store_result" /\ wjob'[w] = wjob[w]
          /\ response'[w] \in OrchestratorResults(wjob[w].query)
    /\ wpc[w] = "store_result" /\ wjob[w].query_id = j => response[w] # NoDict
    /\ wpc[w] \in {"store_result", "except"} /\ wjob[w].query_id = j
       /\ wpc'[w] # wpc[w] /\ store' # store =>
          /\ Exists(store, j)'
          /\ Status(j)' \in Terminal
          /\ store'[j].ttl = RESULT_TTL
          /\ wpc'[w] = "blpop"
C20_BestEffort == [][\A w \in Workers, j \in JobIds : C20_Step(w, j)]_vars
\* a job whose record never had status processing has its failed record, written
\* with a full RESULT_TTL, while the record of a job submitted later is older
C20_Witness ==
    \E r1, r2 \in Requests :
        /\ r1 < r2 /\ reqPc[r1] = "returned" /\ reqPc[r2] = "returned"
        /\ seen[reqId[r1]] = {"queued", "failed"}
        /\ Exists(store, reqId[r1]) /\ Status(reqId[r1]) = "failed"
        /\ store[reqId[r1]].ttl = RESULT_TTL
        /\ Record(reqId[r1])["error"] = Str(TypeErrMsg)
        /\ Exists(store, reqId[r2]) /\ store[reqId[r2]].ttl < RESULT_TTL

\* C21: an agent is invoked exactly when its selector is true.  The collected
\* mapping has one entry for each selected agent and none for the others; what
\* the calls of an agent that is not selected would do has no effect on it; a
\* selected agent whose calls raise has an entry with success False and an
\* error text.
C21_Entries(query, routing, outcomes) ==
    LET responses == _invoke_agents(query, routing, outcomes) IN
    /\ DOMAIN responses = {ResponseKey(a) : a \in {b \in Agents : routing[b]}}
    /\ \A a \in Agents : ~routing[a] =>
          \A x \in CallOutcomes :
              _invoke_agents(query, routing, [outcomes EXCEPT ![a] = x]) = responses
    /\ \A a \in Agents : routing[a] =>
          /\ responses[ResponseKey(a)] = agent_process_query(a, query, outcomes[a])
          /\ outcomes[a] = "raises" =>
                /\ responses[ResponseKey(a)].success = Bool(FALSE)
                /\ responses[ResponseKey(a)].error.t = "str"
                /\ responses[ResponseKey(a)].error.s # ""
          /\ outcomes[a] = "returns" => responses[ResponseKey(a)].success = Bool(TRUE)
C21_AllInputs ==
    \A q \in Queries, routing \in [Agents -> BOOLEAN], o \in [Agents -> CallOutcomes] :
        C21_Entries(q, routing, o)
C21_ExactlySelected ==
    /\ C21_AllInputs
    /\ \A w \in Workers : wpc[w] = "aggregate" =>
          /\ DOMAIN agent_responses[w] =
                {ResponseKey(a) : a \in {b \in Agents : routing_decision[w][b]}}
          /\ \A a \in Agents :
                /\ routing_decision[w][a] <=> externals[w].agents[a] # "not_invoked"
                /\ externals[w].agents[a] = "raises" =>
                      ~Truthy(agent_responses[w][ResponseKey(a)].success)
C21_Witness ==
    \E w \in Workers :
        /\ wpc[w] = "aggregate"
        /\ routing_decision[w] = [a \in Agents |-> a # "operator_agent"]
        /\ DOMAIN agent_responses[w] = {"sensor_data", "maintenance_logs"}
        /\ externals[w].agents["maintenance_agent"] = "raises"
        /\ agent_responses[w]["maintenance_logs"].error = Str(AgentErrMsg("maintenance_agent"))
        /\ Truthy(agent_responses[w]["sensor_data"].success)

\* C22: within one job the Orchestrator goes ROUTING, INVOKING, AGGREGATING,
\* DONE, each entered once and only from the one before, on the same job; when
\* AGGREGATING is entered every selected agent has finished or failed and has
\* its entry in the collected mapping.
Moved(w) == wpc'[w] # wpc[w]
C22_Step(w) ==
    /\ Moved(w) /\ wpc[w] = "route" => wpc'[w] = "invoke"
    /\ Moved(w) /\ wpc[w] = "invoke" => wpc'[w] = "aggregate"
    /\ Moved(w) /\ wpc[w] = "aggregate" => wpc'[w] = "store_result"
    /\ Moved(w) /\ wpc'[w] = "route" => wpc[w] \in {"status_get", "status_set"}
    /\ Moved(w) /\ wpc'[w] = "invoke" => wpc[w] = "route"
    /\ Moved(w) /\ wpc'[w] = "aggregate" => wpc[w] = "invoke"
    /\ Moved(w) /\ wpc'[w] = "store_result" => wpc[w] = "aggregate" /\ response'[w] # NoDict
    /\ wpc[w] \in {"route", "invoke", "aggregate"} => wjob'[w] = wjob[w]
    /\ wpc'[w] = "aggregate" =>
          \A a \in Agents : routing_decision'[w][a] =>
              /\ externals'[w].agents[a] \in {"returns", "raises"}
              /\ ResponseKey(a) \in DOMAIN agent_responses'[w]
C22_StateOrder == [][\A w \in Workers : C22_Step(w)]_vars
\* DONE was reached for a job whose routing selected all three agents, one of
\* which failed
C22_Witness ==
    \E w \in Workers :
        /\ wpc[w] = "store_result"
        /\ job_log[w].all_selected /\ ~job_log[w].all_succeeded
        /\ response[w] # NoDict

\* C23: the synthesis request carries the query and something from every
\* collected outcome: for a failed agent its error text in place of the
\* narrative, for a successful agent its narrative and its document list.
AnalysisKey(a) == CASE a = "sensor_agent" -> "sensor_analysis"
                    [] a = "operator_agent" -> "operator_analysis"
                    [] OTHER -> "maintenance_analysis"
C23_RequestCarriesOutcomes ==
    \A w \in Workers : wpc[w] = "aggregate" =>
        LET request == synthesis_kwargs(wjob[w].query, agent_responses[w]) IN
        /\ request.query = Str(wjob[w].query)
        /\ DOMAIN request = CallKeywords
        /\ \A a \in Agents : ResponseKey(a) \in DOMAIN agent_responses[w] =>
              IF Truthy(agent_responses[w][ResponseKey(a)].success)
              THEN request[AnalysisKey(a)] # Str("")
              ELSE request[AnalysisKey(a)] = agent_responses[w][ResponseKey(a)].error

\* C24 as stated: an exception raised inside any state ends the job as failed
\* with that exception's text; here for INVOKING: when the calls of a selected
\* agent raised, the record stored is failed and its error is the text that
\* agent raised.
C24_AgentStep(w, j) ==
    Stores(w, j) /\ ~job_log[w].all_succeeded =>
        /\ Exists(store, j)'
        /\ Status(j)' = "failed"
        /\ Record(j)'["error"].s \in {AgentErrMsg(a) : a \in Agents}
C24_AnyExceptionFails == [][\A w \in Workers, j \in JobIds : C24_AgentStep(w, j)]_vars
\* C24: MasterAgent.process_query never raises.  An exception that leaves a
\* state (ROUTING and INVOKING handle those of their external calls themselves)
\* is caught by process_query: it returns a result with success False and the
\* exception's text, the Worker stores status failed with that text as error and
\* no report, and no state is entered a second time.
C24_BoundaryStep(w, j) ==
    /\ Moved(w) /\ wpc[w] = "aggregate" /\ wjob[w].query_id = j =>
          /\ wpc'[w] = "store_result"
          /\ "success" \in DOMAIN response'[w]
          /\ _generate_rca_report(wjob[w].query, agent_responses[w],
                                  job_log'[w].synthesis).raised =>
                /\ response'[w].success = Bool(FALSE)
                /\ response'[w].error =
                      Str(_generate_rca_report(wjob[w].query, agent_responses[w],
                                               job_log'[w].synthesis).msg)
    /\ Stores(w, j) /\ ~Truthy(response[w].success) =>
          /\ Exists(store, j)'
          /\ Status(j)' = "failed"
          /\ Record(j)'["error"] = response[w].error
          /\ Record(j)'["error"].s # ""
          /\ Record(j)'["rca_report"] = None
    /\ Moved(w) /\ wpc[w] = "store_result" => wpc'[w] = "blpop"
C24_CaughtAtBoundary ==
    [][\A w \in Workers, j \in JobIds : C24_BoundaryStep(w, j)]_vars
\* a job ended at the boundary: its record is failed with the text of the
\* exception raised in AGGREGATING, and the Worker is back at the BLPOP
C24_Witness ==
    \E j \in JobIds :
        /\ Exists(store, j) /\ Status(j) = "failed"
        /\ Record(j)["error"] = Str(TypeErrMsg)
        /\ Record(j)["query"] = Str("vibration MCH_003")
        /\ seen[j] = {"queued", "processing", "failed"}
        /\ \A w \in Workers : wpc[w] = "blpop"

\* C25: the timestamp of a stored record is null while its status is queued or
\* processing and is not null once the status is completed or failed, whichever
\* write made it so.
C25_CompletedAt ==
    \A j \in JobIds : Exists(store, j) =>
        /\ Status(j) \in {"queued", "processing"} => Record(j)["timestamp"] = None
        /\ Status(j) \in Terminal => Record(j)["timestamp"] # None

\* C26: an empty queue does not hold the Worker in its pop.  Once stop() has
\* been called while the Worker waits on an empty queue, the Worker leaves the
\* loop or a job arrives; and the step that leaves the loop from the pop takes
\* no job and writes nothing.
C26_ExitStep(w) ==
    wpc[w] = "blpop" /\ wpc'[w] = "stopped" =>
        /\ ~running[w]
        /\ queue = << >> /\ queue' = queue
        /\ popped' = popped /\ store' = store /\ wjob'[w] = NoJob
C26_StopsWhenIdle ==
    /\ [][\A w \in Workers : C26_ExitStep(w)]_vars
    /\ \A w \in Workers :
          (~running[w] /\ wpc[w] = "blpop" /\ queue = << >>)
              ~> (wpc[w] = "stopped" \/ queue # << >>)
\* the Worker has left the loop with nothing popped, after a submission whose
\* record is still queued
C26_Witness ==
    \E w \in Workers :
        /\ wpc[w] = "stopped" /\ ~running[w]
        /\ popped = << >> /\ pushed = << >>
        /\ \E r \in Requests : reqPc[r] = "stored"

\* C27: what list_results returns.  The call returns only after it has read
\* every key it was given, whatever expired in between; each entry carries a
\* job_id that was live when the call began, once, with the query submitted
\* under that job_id and a status that job has had; and every record that was
\* live during the whole call has its entry.
EntryIds(queries) == {queries[i].query_id : i \in 1..Len(queries)}
C27_Returns ==
    listing.pc = "get" /\ listing'.pc = "idle" =>
        LET listed == list_response(listing.queries) IN
        /\ listing.keys = {}
        /\ listed.http = 200
        /\ listed.total_queries = Cardinality(EntryIds(listed.queries))
        /\ listing.always \subseteq EntryIds(listed.queries)
        /\ EntryIds(listed.queries) \subseteq listing.start
        /\ \A i \in 1..Len(listed.queries) :
              LET e == listed.queries[i] IN
              /\ written[e.query_id] # NoDict
              /\ \E r \in Requests : /\ reqPc[r] # "none" /\ reqId[r] = e.query_id
                                     /\ e.query = Str(reqQuery[r])
              /\ e.status.s \in seen[e.query_id]
C27_Listing == [][C27_Returns]_vars
\* a call about to return: of the two records it was given one expired before
\* its GET and is left out, the other one is listed
C27_Witness ==
    /\ listing.pc = "get" /\ listing.keys = {}
    /\ Cardinality(listing.start) = 2
    /\ Len(listing.queries) = 1
    /\ listing.always = {listing.queries[1].query_id}
    /\ \E k \in listing.start : ~Exists(store, k)

\* C28: with a Worker that keeps running and a reachable queue and store, every
\* job whose push completed eventually has had a record with a terminal status
\* written, it is neither waiting on the queue nor held by the Worker, and the
\* record under its job_id, while it lasts, is terminal; and it stays so.
C28_Settled(j) ==
    /\ seen[j] \cap Terminal # {}
    /\ ~InQueue(j)
    /\ \A w \in Workers : ~Holds(w, j)
    /\ Exists(store, j) => Status(j) \in Terminal
C28_EveryJobEnds ==
    /\ \A j \in JobIds : (j \in Range(pushed)) ~> C28_Settled(j)
    /\ [][\A j \in JobIds : C28_Settled(j) => C28_Settled(j)']_vars
\* the second of two pushed jobs has its terminal record while the first one's
\* record has expired
C28_Witness ==
    /\ Len(pushed) = 2
    /\ C28_Settled(pushed[2]) /\ Exists(store, pushed[2])
    /\ seen[pushed[1]] \cap Terminal # {} /\ ~Exists(store, pushed[1])

\* C29: the queued record of a job is written before the job is pushed.  A job
\* that was pushed, is on the queue or is held by a worker has had its queued
\* record written; a processing or terminal status is written only for a job
\* that was pushed, hence after its queued record; and the last record written
\* for a job is the queued one only while no other status was ever written for
\* it: the queued write overwrites no processing, completed or failed record.
C29_QueuedFirst ==
    \A j \in JobIds :
        /\ (j \in Range(pushed) \/ InQueue(j) \/ \E w \in Pool : Holds(w, j))
              => "queued" \in seen[j]
        /\ seen[j] \cap ({"processing"} \cup Terminal) # {}
              => "queued" \in seen[j] /\ j \in Range(pushed)
        /\ written[j] # NoDict /\ written[j].status.s = "queued" => seen[j] = {"queued"}
\* one request has written its queued record and not pushed yet, while a worker
\* holds an earlier job whose processing status is written
C29_Witness ==
    \E r \in Requests : \E w \in Pool :
        /\ reqPc[r] = "stored" /\ seen[reqId[r]] = {"queued"}
        /\ reqId[r] \notin Range(pushed)
        /\ wpc[w] = "store_result" /\ "processing" \in seen[wjob[w].query_id]

\* C30: the query text of a job never changes.  Every record written under a
\* job_id, and the record stored under it, carries the query that was submitted
\* with the request that drew this job_id; the job a worker holds carries that
\* query too, so the Worker's writes take over the query of the job popped and
\* of no other job.
Submitted(j) == {reqQuery[r] : r \in {x \in Requests : reqPc[x] # "none" /\ reqId[x] = j}}
C30_QueryKept ==
    \A j \in JobIds :
        /\ written[j] # NoDict =>
              /\ Cardinality(Submitted(j)) = 1
              /\ \A q \in Submitted(j) : written[j].query = Str(q)
        /\ Exists(store, j) => \A q \in Submitted(j) : Record(j)["query"] = Str(q)
        /\ \A w \in Workers : Holds(w, j) => Submitted(j) = {wjob[w].query}
\* two jobs with different queries, the first one with its failed record
\* written, the second one after its processing update
C30_Witness ==
    \E j, k \in JobIds :
        /\ Submitted(j) # Submitted(k) /\ Submitted(j) # {} /\ Submitted(k) # {}
        /\ Exists(store, j) /\ Status(j) = "failed"
        /\ Exists(store, k) /\ Status(k) = "processing"
        /\ \E w \in Workers : Holds(w, k)

====
